---- MODULE Spec2Model ----
(***************************************************************************)
(* A blocking multi-producer single-consumer channel built from a Mutex    *)
(* and a Condvar (src/src/lib.rs).  Every thread step that touches the     *)
(* lock, the shared Inner {queue, sender} or the Condvar is one action.    *)
(***************************************************************************)
EXTENDS Integers, Sequences, FiniteSets, TLC

\* ------------------------------------------------------------------ bounds
MaxSenders == 2      \* Sender handles that may ever exist (original + clones)
MaxItems == 3        \* send calls made on the channel, over all Senders
MaxRecv == 4         \* recv calls made on the Receiver
MaxHandleSends == 2  \* send calls in the runs that follow three handles

Senders == 1 .. MaxSenders

\* One more handle slot: a clone under way beside two existing handles
WideSenders == 1 .. (MaxSenders + 1)

\* The thread that owns the Receiver (Sender threads are 1 .. MaxSenders).
Rx == 0

VARIABLES
    queue,      \* Inner.queue: VecDeque<T>
    sender,     \* Inner.sender: usize
    lock,       \* Shared.inner: the set of threads holding the Mutex
    buffer,     \* Receiver.buffer: VecDeque<T>
    spc,        \* per Sender slot: where that handle's thread is
    was_last,   \* Sender::drop's local was_last
    nsent,      \* per Sender: number of send calls that pushed
    rpc,        \* where the Receiver's thread is
    rxAlive,    \* the Receiver has not been destroyed
    pushLog,    \* items in the order push_back appended them
    recvLog,    \* results returned by recv, in call order
    lastVia,    \* what served the latest recv result: "buffer" or "queue"
    orphaned,   \* items pushed after the Receiver was destroyed
    refQueue,   \* the queue of a plain locked channel run side by side
    refLog      \* the results that plain channel's recv returns

vars == <<queue, sender, lock, buffer, spc, was_last, nsent, rpc, rxAlive,
          pushLog, recvLog, lastVia, orphaned, refQueue, refLog>>

\* ------------------------------------------------------------ Option<T>
None == <<>>
Some(t) == <<t>>

\* The item a Sender sends: tagged with its handle and per-handle sequence no.
Item(s, n) == <<s, n>>

\* --------------------------------------------------------- pure operators
\* A push at the wrong end of the deque
push_front(q, t) == <<t>> \o q

\* VecDeque::push_back
push_back(q, t) == Append(q, t)

\* A pop at the wrong end of the deque
pop_back(q) ==
    IF q = <<>> THEN <<None, <<>>>>
    ELSE <<Some(q[Len(q)]), SubSeq(q, 1, Len(q) - 1)>>

\* VecDeque::pop_front: <<the Option returned, the deque left behind>>
pop_front(q) == IF q = <<>> THEN <<None, <<>>>> ELSE <<Some(Head(q)), Tail(q)>>

\* clone without the increment; clone counting the new handle twice
IncSenderForgotten(n) == n
IncSenderTwice(n) == n + 2

\* Sender::clone line 13: inner.sender += 1
IncSender(n) == n + 1

\* drop taking the count down by two
DecSenderTwice(n) == n - 2

\* drop without the decrement
DecSenderForgotten(n) == n

\* Sender::drop line 27: inner.sender -= 1
DecSender(n) == n - 1

\* was_last taken from the count before the decrement
IsLastOffByOne(n) == n = 1

\* Sender::drop line 28: was_last = inner.sender == 0
IsLast(n) == n = 0

\* No closed test at all: an empty queue always means wait
NoSendersNever(n) == FALSE

\* The closed test off by one: one live Sender taken for none
NoSendersOffByOne(n) == n <= 1

\* An empty queue taken for a closed channel, whatever the count
NoSendersUnchecked(n) == TRUE

\* Receiver::recv line 71: the guard `inner.sender < 1`
NoSenders(n) == n < 1

\* Receiver::recv line 66: swap only when the queue still holds items
SwapNeeded(q) == q # <<>>

\* The swap left out: the rest stays in the queue
SwapForgotten(b, q) == <<b, q>>

\* The rest copied into the buffer and left in the queue as well
SwapAsCopy(b, q) == <<q, q>>

\* std::mem::swap(&mut self.buffer, &mut inner.queue): <<buffer', queue'>>
Swap(b, q) == <<q, b>>

\* Condvar::notify_one: wakes the Receiver if it is blocked in wait
notify_one(p) == IF p = "waiting" THEN "woken" ELSE p

\* A lock that lets a second thread in
CanLockAlways(l) == TRUE

\* Mutex::lock succeeds only when no thread holds the Mutex
CanLock(l) == l = {}

\* The plain locked channel (no local buffer): send appends under the lock
ref_send(q, t) == Append(q, t)

\* The plain locked channel's recv, every call through the lock:
\* <<the results it returns (none while it has to block), the queue left>>
ref_recv(q, n) ==
    IF q # <<>> THEN <<<<Some(Head(q))>>, Tail(q)>>
    ELSE IF n < 1 THEN <<<<None>>, q>>
    ELSE <<<<>>, q>>

\* Sender handles that exist (constructed and not yet fully destroyed)
Handles == {s \in DOMAIN spc : spc[s] \notin {"none", "dropped"}}

FreeSlots == {s \in DOMAIN spc : spc[s] = "none"}
Cloning == {s \in DOMAIN spc : spc[s] \in {"clone_locked", "clone_ret"}}
Sending == {s \in DOMAIN spc : spc[s] = "send_locked"}
MinOf(S) == CHOOSE x \in S : \A y \in S : x <= y

\* ------------------------------------------------------------------ Init
\* channel(): one Sender, one Receiver, sender count 1, empty queue and buffer
InitOn(S) ==
    /\ queue = <<>>
    /\ sender = 1
    /\ lock = {}
    /\ buffer = <<>>
    /\ spc = [s \in S |-> IF s = 1 THEN "idle" ELSE "none"]
    /\ was_last = [s \in S |-> FALSE]
    /\ nsent = [s \in S |-> 0]
    /\ rpc = "idle"
    /\ rxAlive = TRUE
    /\ pushLog = <<>>
    /\ recvLog = <<>>
    /\ lastVia = "none"
    /\ orphaned = 0
    /\ refQueue = <<>>
    /\ refLog = <<>>

Init == InitOn(Senders)

\* ---------------------------------------------------------- Sender::send
\* line 42: lock() returns
SendLock(s) ==
    /\ spc[s] = "idle"
    /\ Len(pushLog) + Cardinality(Sending) < MaxItems
    /\ CanLock(lock)
    /\ lock' = lock \cup {s}
    /\ spc' = [spc EXCEPT ![s] = "send_locked"]
    /\ UNCHANGED <<queue, sender, buffer, was_last, nsent, rpc, rxAlive,
                   pushLog, recvLog,
                   lastVia, orphaned,
                   refQueue, refLog>>

\* A send that gives up when the Receiver is gone
SendPushIfReceiver(s) ==
    /\ spc[s] = "send_locked"
    /\ queue' = IF rxAlive THEN push_back(queue, Item(s, nsent[s] + 1)) ELSE queue
    /\ pushLog' = Append(pushLog, Item(s, nsent[s] + 1))
    /\ nsent' = [nsent EXCEPT ![s] = @ + 1]
    /\ lock' = lock \ {s}
    /\ spc' = [spc EXCEPT ![s] = "send_notify"]
    /\ orphaned' = IF rxAlive THEN orphaned ELSE orphaned + 1
    /\ refQueue' = ref_send(refQueue, Item(s, nsent[s] + 1))
    /\ refLog' = refLog
    /\ UNCHANGED <<sender, buffer, was_last, rpc, rxAlive, recvLog, lastVia>>

\* A send without drop(inner): the guard lives on past the notify
SendPushKeepsLock(s) ==
    /\ spc[s] = "send_locked"
    /\ queue' = push_back(queue, Item(s, nsent[s] + 1))
    /\ pushLog' = Append(pushLog, Item(s, nsent[s] + 1))
    /\ nsent' = [nsent EXCEPT ![s] = @ + 1]
    /\ spc' = [spc EXCEPT ![s] = "send_notify"]
    /\ orphaned' = IF rxAlive THEN orphaned ELSE orphaned + 1
    /\ refQueue' = ref_send(refQueue, Item(s, nsent[s] + 1))
    /\ UNCHANGED <<sender, lock, buffer, was_last, rpc, rxAlive, recvLog,
                   lastVia, refLog>>

\* lines 43-47: push_back(t); drop(inner)
SendPush(s) ==
    /\ spc[s] = "send_locked"
    /\ queue' = push_back(queue, Item(s, nsent[s] + 1))
    /\ pushLog' = Append(pushLog, Item(s, nsent[s] + 1))
    /\ nsent' = [nsent EXCEPT ![s] = @ + 1]
    /\ lock' = lock \ {s}
    /\ spc' = [spc EXCEPT ![s] = "send_notify"]
    /\ orphaned' = IF rxAlive THEN orphaned ELSE orphaned + 1
    /\ refQueue' = ref_send(refQueue, Item(s, nsent[s] + 1))
    /\ refLog' = refLog
    /\ UNCHANGED <<sender, buffer, was_last, rpc, rxAlive, recvLog, lastVia>>

\* A send that returns without signalling the Condvar
SendNotifyMissing(s) ==
    /\ spc[s] = "send_notify"
    /\ spc' = [spc EXCEPT ![s] = "idle"]
    /\ UNCHANGED <<queue, sender, lock, buffer, was_last, nsent, rpc, rxAlive,
                   pushLog, recvLog, lastVia, orphaned,
                   refQueue, refLog>>

\* line 48: available.notify_one()
SendNotify(s) ==
    /\ spc[s] = "send_notify"
    /\ rpc' = notify_one(rpc)
    /\ spc' = [spc EXCEPT ![s] = "idle"]
    /\ UNCHANGED <<queue, sender, lock, buffer, was_last, nsent, rxAlive,
                   pushLog, recvLog,
                   lastVia, orphaned,
                   refQueue, refLog>>

\* --------------------------------------------------------- Sender::clone
\* line 12: lock() returns
CloneLock(s) ==
    /\ spc[s] = "idle"
    /\ Cardinality(FreeSlots) > Cardinality(Cloning)
    /\ CanLock(lock)
    /\ lock' = lock \cup {s}
    /\ spc' = [spc EXCEPT ![s] = "clone_locked"]
    /\ UNCHANGED <<queue, sender, buffer, was_last, nsent, rpc, rxAlive,
                   pushLog, recvLog,
                   lastVia, orphaned,
                   refQueue, refLog>>

\* lines 13-14: inner.sender += 1; drop(inner)
CloneInc(s) ==
    /\ spc[s] = "clone_locked"
    /\ sender' = IncSender(sender)
    /\ lock' = lock \ {s}
    /\ spc' = [spc EXCEPT ![s] = "clone_ret"]
    /\ UNCHANGED <<queue, buffer, was_last, nsent, rpc, rxAlive,
                   pushLog, recvLog,
                   lastVia, orphaned,
                   refQueue, refLog>>

\* lines 15-20: the new Sender { shared: Arc::clone(..) } comes into existence
CloneReturn(s) ==
    /\ spc[s] = "clone_ret"
    /\ spc' = [spc EXCEPT ![s] = "idle", ![MinOf(FreeSlots)] = "idle"]
    /\ UNCHANGED <<queue, sender, lock, buffer, was_last, nsent, rpc, rxAlive,
                   pushLog, recvLog,
                   lastVia, orphaned,
                   refQueue, refLog>>

\* ---------------------------------------------------------- Sender::drop
\* line 26: lock() returns
DropLock(s) ==
    /\ spc[s] = "idle"
    /\ CanLock(lock)
    /\ lock' = lock \cup {s}
    /\ spc' = [spc EXCEPT ![s] = "drop_locked"]
    /\ UNCHANGED <<queue, sender, buffer, was_last, nsent, rpc, rxAlive,
                   pushLog, recvLog,
                   lastVia, orphaned,
                   refQueue, refLog>>

\* lines 27-29: inner.sender -= 1; was_last = inner.sender == 0; drop(inner)
DropDec(s) ==
    /\ spc[s] = "drop_locked"
    /\ sender' = DecSender(sender)
    /\ was_last' = [was_last EXCEPT ![s] = IsLast(DecSender(sender))]
    /\ lock' = lock \ {s}
    /\ spc' = [spc EXCEPT ![s] = "drop_unlocked"]
    /\ UNCHANGED <<queue, buffer, nsent, rpc, rxAlive, pushLog,
                   recvLog,
                   lastVia, orphaned,
                   refQueue, refLog>>

\* lines 30-36: if was_last { notify_one() }; then the handle is gone
DropNotify(s) ==
    /\ spc[s] = "drop_unlocked"
    /\ rpc' = IF was_last[s] THEN notify_one(rpc) ELSE rpc
    /\ spc' = [spc EXCEPT ![s] = "dropped"]
    /\ UNCHANGED <<queue, sender, lock, buffer, was_last, nsent, rxAlive,
                   pushLog, recvLog,
                   lastVia, orphaned,
                   refQueue, refLog>>

\* -------------------------------------------------------- Receiver::recv
\* lines 59-61: the buffer is not empty: pop its front, no lock taken
RecvBuffered ==
    /\ rxAlive
    /\ rpc = "idle"
    /\ Len(recvLog) < MaxRecv
    /\ buffer # <<>>
    /\ recvLog' = Append(recvLog, pop_front(buffer)[1])
    /\ buffer' = pop_front(buffer)[2]
    /\ lastVia' = "buffer"
    /\ refLog' = refLog \o ref_recv(refQueue, sender)[1]
    /\ refQueue' = ref_recv(refQueue, sender)[2]
    /\ UNCHANGED <<queue, sender, lock, spc, was_last, nsent, rpc, rxAlive,
                   pushLog, orphaned>>

\* A recv that goes to the shared queue without looking at the buffer
RecvCallUnchecked ==
    /\ rxAlive
    /\ rpc = "idle"
    /\ Len(recvLog) < MaxRecv
    /\ rpc' = "locking"
    /\ UNCHANGED <<queue, sender, lock, buffer, spc, was_last, nsent, rxAlive,
                   pushLog, recvLog, lastVia, orphaned, refQueue, refLog>>

\* line 59 with an empty buffer: go on to lock()
RecvCall ==
    /\ rxAlive
    /\ rpc = "idle"
    /\ Len(recvLog) < MaxRecv
    /\ buffer = <<>>
    /\ rpc' = "locking"
    /\ UNCHANGED <<queue, sender, lock, buffer, spc, was_last, nsent, rxAlive,
                   pushLog, recvLog,
                   lastVia, orphaned,
                   refQueue, refLog>>

\* A wait under `if` instead of `loop`: whatever pop_front gives after a
\* wakeup is returned without a second look at the queue or the count
RecvLockNoRecheck ==
    /\ rpc \in {"locking", "woken"}
    /\ CanLock(lock)
    /\ IF rpc = "woken"
       THEN /\ recvLog' = Append(recvLog, pop_front(queue)[1])
            /\ queue' = pop_front(queue)[2]
            /\ rpc' = "idle"
            /\ lastVia' = "queue"
            /\ lock' = lock
       ELSE /\ lock' = lock \cup {Rx}
            /\ rpc' = "loop"
            /\ UNCHANGED <<queue, recvLog, lastVia>>
    /\ UNCHANGED <<sender, buffer, spc, was_last, nsent, rxAlive,
                   pushLog, orphaned, refQueue, refLog>>

\* line 62: lock() returns; line 77: wait() re-acquires after a wakeup
RecvLock ==
    /\ rpc \in {"locking", "woken"}
    /\ CanLock(lock)
    /\ lock' = lock \cup {Rx}
    /\ rpc' = "loop"
    /\ UNCHANGED <<queue, sender, buffer, spc, was_last, nsent, rxAlive,
                   pushLog, recvLog,
                   lastVia, orphaned,
                   refQueue, refLog>>

\* lines 64-70: Some(t): swap the rest into the buffer if there is a rest,
\* return Some(t) (the MutexGuard goes out of scope)
RecvPop ==
    /\ rpc = "loop"
    /\ pop_front(queue)[1] # None
    /\ IF SwapNeeded(pop_front(queue)[2])
       THEN /\ buffer' = Swap(buffer, pop_front(queue)[2])[1]
            /\ queue' = Swap(buffer, pop_front(queue)[2])[2]
       ELSE /\ buffer' = buffer
            /\ queue' = pop_front(queue)[2]
    /\ recvLog' = Append(recvLog, pop_front(queue)[1])
    /\ lock' = lock \ {Rx}
    /\ rpc' = "idle"
    /\ lastVia' = "queue"
    /\ refLog' = refLog \o ref_recv(refQueue, sender)[1]
    /\ refQueue' = ref_recv(refQueue, sender)[2]
    /\ UNCHANGED <<sender, spc, was_last, nsent, rxAlive, pushLog, orphaned>>

\* line 71: None if inner.sender < 1 => return None
RecvClosed ==
    /\ rpc = "loop"
    /\ pop_front(queue)[1] = None
    /\ NoSenders(sender)
    /\ recvLog' = Append(recvLog, None)
    /\ lock' = lock \ {Rx}
    /\ rpc' = "idle"
    /\ lastVia' = "queue"
    /\ refLog' = refLog \o ref_recv(refQueue, sender)[1]
    /\ refQueue' = ref_recv(refQueue, sender)[2]
    /\ UNCHANGED <<queue, sender, buffer, spc, was_last, nsent, rxAlive,
                   pushLog, orphaned>>

\* line 77: Condvar::wait releases the Mutex and blocks, atomically
RecvWait ==
    /\ rpc = "loop"
    /\ pop_front(queue)[1] = None
    /\ ~NoSenders(sender)
    /\ lock' = lock \ {Rx}
    /\ rpc' = "waiting"
    /\ UNCHANGED <<queue, sender, buffer, spc, was_last, nsent, rxAlive,
                   pushLog, recvLog,
                   lastVia, orphaned,
                   refQueue, refLog>>

\* Condvar::wait may return with no notify issued
SpuriousWake ==
    /\ rpc = "waiting"
    /\ rpc' = "woken"
    /\ UNCHANGED <<queue, sender, lock, buffer, spc, was_last, nsent, rxAlive,
                   pushLog, recvLog,
                   lastVia, orphaned,
                   refQueue, refLog>>

\* The caller discards the Receiver (no Drop impl: its fields are freed)
DropReceiver ==
    /\ rxAlive
    /\ rpc = "idle"
    /\ rxAlive' = FALSE
    /\ buffer' = <<>>
    /\ UNCHANGED <<queue, sender, lock, spc, was_last, nsent, rpc, pushLog, recvLog,
                   lastVia, orphaned,
                   refQueue, refLog>>

\* ------------------------------------------------------------------ Next
SenderStep(s) ==
    \/ SendLock(s) \/ SendPush(s) \/ SendNotify(s)
    \/ CloneLock(s) \/ CloneInc(s) \/ CloneReturn(s)
    \/ DropLock(s) \/ DropDec(s) \/ DropNotify(s)

ReceiverStep ==
    \/ RecvBuffered \/ RecvCall \/ RecvLock \/ RecvPop \/ RecvClosed
    \/ RecvWait \/ SpuriousWake

Next ==
    \/ \E s \in DOMAIN spc : SenderStep(s)
    \/ ReceiverStep
    \/ DropReceiver

Spec == Init /\ [][Next]_vars

\* --------------------------------------------------------------- fairness
\* A thread that is inside an operation keeps being scheduled; whether a
\* thread starts another send, clone, drop or recv is up to the caller, and
\* a spurious wakeup is never owed.
SenderProgress(s) ==
    \/ SendPush(s) \/ SendNotify(s)
    \/ CloneInc(s) \/ CloneReturn(s)
    \/ DropDec(s) \/ DropNotify(s)

ReceiverProgress == RecvLock \/ RecvPop \/ RecvClosed \/ RecvWait

\* The channel for as long as the caller keeps the Receiver (recv borrows it
\* mutably, so it cannot be destroyed while a recv call is under way)
LiveNext ==
    \/ \E s \in DOMAIN spc : SenderStep(s)
    \/ ReceiverStep

FairSpec ==
    /\ Init /\ [][LiveNext]_vars
    /\ \A s \in Senders : WF_vars(SenderProgress(s))
    /\ WF_vars(ReceiverProgress)

\* ------------------------------------------------- clone against drop
\* The same threads with one more handle slot and few sends, so that a clone
\* on one handle runs against the drop of another while the Receiver looks.
HandleSendLock(s) ==
    /\ Len(pushLog) + Cardinality(Sending) < MaxHandleSends
    /\ SendLock(s)

HandlesNext ==
    \/ \E s \in DOMAIN spc :
          \/ HandleSendLock(s) \/ SendPush(s) \/ SendNotify(s)
          \/ CloneLock(s) \/ CloneInc(s) \/ CloneReturn(s)
          \/ DropLock(s) \/ DropDec(s) \/ DropNotify(s)
    \/ ReceiverStep

HandlesSpec == InitOn(WideSenders) /\ [][HandlesNext]_vars

\* ------------------------------------------------------- derived notions
\* The items of the Some results of a recv log, in order
Delivered(log) ==
    LET somes == SelectSeq(log, LAMBDA r : r # None)
    IN  [i \in 1 .. Len(somes) |-> somes[i][1]]

\* The items of one Sender within a sequence of items
FromSender(seq, s) == SelectSeq(seq, LAMBDA t : t[1] = s)

IsPrefix(a, b) == Len(a) <= Len(b) /\ \A i \in 1 .. Len(a) : a[i] = b[i]

RECURSIVE SumSent(_)
SumSent(S) ==
    IF S = {} THEN 0
    ELSE LET x == CHOOSE y \in S : TRUE IN nsent[x] + SumSent(S \ {x})

ReturnedNone == \E i \in DOMAIN recvLog : recvLog[i] = None

\* ----------------------------------------------------------------- claims
\* C1: the items one Sender sent are returned by successive recv calls in
\* exactly the order that Sender sent them, none skipped and none repeated,
\* whether a recv took its item from the shared queue or from the buffer.
C1_SingleSenderOrder ==
    \A s \in Senders :
        LET d == FromSender(Delivered(recvLog), s)
        IN  \A k \in 1 .. Len(d) : d[k] = Item(s, k)

\* Three items of one Sender delivered, the latest of them out of the buffer
C1_Witness ==
    /\ Len(FromSender(Delivered(recvLog), 1)) >= 3
    /\ lastVia = "buffer"
    /\ recvLog[Len(recvLog)] = Some(Item(1, 3))

\* C2: once the only Sender has been dropped with nothing ever sent, a recv
\* call never enters the Condvar wait and the result it returns is None.
OnlySenderDropped ==
    /\ spc[1] = "dropped"
    /\ \A s \in Senders \ {1} : spc[s] = "none"
    /\ pushLog = <<>>

C2_ClosedNoWait ==
    [][ (OnlySenderDropped /\ rpc # "waiting")
          => /\ rpc' # "waiting"
             /\ recvLog' # recvLog => recvLog' = Append(recvLog, None) ]_vars

\* The Sender is gone, nothing was sent, recv has returned None
C2_Witness ==
    /\ OnlySenderDropped
    /\ rpc = "idle"
    /\ recvLog = <<None>>

\* C3: when recv returns None, the producer count is zero and the results
\* before the first None are exactly the N items sent, each as a Some, in
\* push order: the first None is result number N+1.
C3_DrainBeforeClose ==
    ReturnedNone =>
        /\ sender = 0
        /\ Len(recvLog) > Len(pushLog)
        /\ recvLog[Len(pushLog) + 1] = None
        /\ \A j \in 1 .. Len(pushLog) : recvLog[j] = Some(pushLog[j])

\* Original and clone both dropped, three items sent and delivered, then None
C3_Witness ==
    /\ spc[1] = "dropped" /\ spc[2] = "dropped"
    /\ Len(pushLog) = 3
    /\ Len(recvLog) = 4
    /\ recvLog[4] = None

\* C4: once recv has returned None, the Some results are exactly the items
\* sent by all the Senders: as many as were sent in total, and for each
\* Sender its own items, each once, in its send order.
C4_MultiProducer ==
    ReturnedNone =>
        LET d == Delivered(recvLog)
        IN  /\ Len(d) = SumSent(Senders)
            /\ \A s \in Senders :
                   FromSender(d, s) = [k \in 1 .. nsent[s] |-> Item(s, k)]

\* Two Senders (K = 2), one item each (M = 1), the clone's item pushed first,
\* both Senders dropped: K*M = 2 Some results, then None
C4_Witness ==
    /\ ReturnedNone
    /\ nsent[1] = 1 /\ nsent[2] = 1
    /\ Len(Delivered(recvLog)) = 2
    /\ pushLog[1][1] = 2
    /\ spc[1] = "dropped" /\ spc[2] = "dropped"

\* C5: a recv that finds the queue empty while a Sender is alive blocks in
\* the Condvar wait; and whenever the Receiver is blocked there (or on its
\* way back from there) and a send has put an item at the head of the queue,
\* that item stays at the head until that recv call returns, the call
\* returns Some of that item, and it does eventually return.
InRecvLoop == rpc \in {"waiting", "woken", "loop"}

C5_NoMissedWakeup ==
    /\ [][ (rpc = "loop" /\ queue = <<>> /\ sender >= 1 /\ rpc' # rpc)
             => rpc' = "waiting" ]_vars
    /\ [][ (InRecvLoop /\ queue # <<>>)
             => IF rpc' = "idle"
                THEN recvLog' = Append(recvLog, Some(Head(queue)))
                ELSE /\ recvLog' = recvLog
                     /\ queue' # <<>>
                     /\ Head(queue') = Head(queue) ]_vars
    /\ (rpc = "waiting" /\ queue # <<>>) ~> (rpc = "idle")

\* The Receiver sleeps, a Sender has pushed and not yet notified
C5_Witness ==
    /\ rpc = "waiting"
    /\ queue # <<>>
    /\ \E s \in Senders : spc[s] = "send_notify"

\* C6: whenever the Receiver is blocked in the Condvar wait on an empty
\* queue and the producer count has reached zero (sends or no sends before),
\* the queue stays empty and the count zero, that recv call returns None,
\* and it does eventually return.
C6_CloseWakes ==
    /\ [][ (InRecvLoop /\ queue = <<>> /\ sender = 0)
             => IF rpc' = "idle"
                THEN recvLog' = Append(recvLog, None)
                ELSE /\ recvLog' = recvLog
                     /\ queue' = <<>>
                     /\ sender' = 0 ]_vars
    /\ (rpc = "waiting" /\ queue = <<>> /\ sender = 0) ~> (rpc = "idle")

\* The Receiver sleeps, the last Sender has decremented, nothing was sent
C6_Witness ==
    /\ rpc = "waiting"
    /\ sender = 0
    /\ pushLog = <<>>

\* C7: every result after a None is None.
C7_NonePermanent ==
    \A i, j \in DOMAIN recvLog :
        (i < j /\ recvLog[i] = None) => recvLog[j] = None

\* An item, then None twice
C7_Witness ==
    /\ Len(recvLog) >= 3
    /\ recvLog[1] # None
    /\ recvLog[Len(recvLog) - 1] = None
    /\ recvLog[Len(recvLog)] = None

\* C8 as stated: the producer count equals the number of Sender handles that
\* exist, in every state.
C8_CountEqualsHandles == sender = Cardinality(Handles)

\* C8 amended: the producer count equals the number of Sender handles that
\* exist, plus the clones that have incremented and not yet built their
\* handle, minus the handles whose drop has decremented and not yet returned.
C8_CountTracksHandles ==
    sender = Cardinality(Handles)
             + Cardinality({s \in Senders : spc[s] = "clone_ret"})
             - Cardinality({s \in Senders : spc[s] = "drop_unlocked"})

\* After a clone and a drop, with no operation under way: one handle, count 1
C8_Witness ==
    /\ \E s \in Senders : spc[s] = "dropped"
    /\ \E s \in Senders : spc[s] = "idle"
    /\ \A s \in Senders : spc[s] \in {"idle", "dropped", "none"}
    /\ sender = 1

\* C9: a send that holds the lock can always push and then notify (it has no
\* failure path and no wait), and every item pushed after the Receiver was
\* destroyed is in the shared queue, at its tail, in push order.
C9_SendNeverFails ==
    /\ \A s \in Senders : spc[s] = "send_locked" => ENABLED SendPush(s)
    /\ \A s \in Senders : spc[s] = "send_notify" => ENABLED SendNotify(s)
    /\ orphaned <= Len(queue)
    /\ \A i \in 1 .. orphaned :
           queue[Len(queue) - orphaned + i] = pushLog[Len(pushLog) - orphaned + i]

\* Two sends completed after the Receiver was destroyed
C9_Witness ==
    /\ ~rxAlive
    /\ orphaned >= 2
    /\ \A s \in Senders : spc[s] # "send_locked"

\* C10: the items recv returns are, in order, the items in the order their
\* sends appended them to the shared queue.
C10_GlobalOrder == IsPrefix(Delivered(recvLog), pushLog)

\* Items of two Senders delivered in push order, the latest out of the buffer
C10_Witness ==
    /\ Len(Delivered(recvLog)) >= 3
    /\ Delivered(recvLog)[1][1] # Delivered(recvLog)[2][1]
    /\ lastVia = "buffer"

\* C11: run side by side with a plain locked channel (no local buffer) on the
\* same operations, every recv returns what the plain channel's recv returns,
\* and while the Receiver lives its buffer followed by the shared queue is
\* the plain channel's queue.
C11_Refines ==
    /\ recvLog = refLog
    /\ rxAlive => buffer \o queue = refQueue

\* A result returned, an item left in the buffer and a newer one in the queue
C11_Witness ==
    /\ rxAlive
    /\ recvLog # <<>>
    /\ buffer # <<>>
    /\ queue # <<>>

\* C12: every step in which recv returns None starts in a state where the
\* producer count is zero, the shared queue is empty and the buffer is empty.
C12_NoneOnlyWhenDrained ==
    [][ (Len(recvLog') > Len(recvLog) /\ recvLog'[Len(recvLog')] = None)
          => (sender = 0 /\ queue = <<>> /\ buffer = <<>>) ]_vars

\* None returned right after an item was
C12_Witness ==
    /\ Len(recvLog) >= 2
    /\ recvLog[Len(recvLog)] = None
    /\ recvLog[Len(recvLog) - 1] # None
    /\ sender = 0 /\ queue = <<>> /\ buffer = <<>>

\* C13: whenever the producer count is zero, no Sender handle exists that
\* can still send and no clone is under way (a handle is at most finishing
\* its drop); and once recv has returned None no send pushes any more.
C13_NoSpuriousZero ==
    /\ [](sender = 0 =>
            \A s \in DOMAIN spc : spc[s] \in {"none", "dropped", "drop_unlocked"})
    /\ [][ReturnedNone => pushLog' = pushLog]_vars

\* The Receiver holds the lock and reads the count while one handle is
\* between the increment of its clone and the new handle, and another
\* handle is between the decrement of its drop and its end
C13_Witness ==
    /\ rpc = "loop"
    /\ queue = <<>>
    /\ \E a, b \in DOMAIN spc : spc[a] = "clone_ret" /\ spc[b] = "drop_unlocked"
    /\ sender >= 1

\* C14: at most one thread holds the lock, and every step that changes the
\* shared queue or the producer count is a step of the one thread that
\* holds the lock.
Moved(th) == IF th = Rx THEN rpc' # rpc ELSE spc'[th] # spc[th]

C14_MutationUnderLock ==
    /\ [](Cardinality(lock) <= 1)
    /\ [][ (queue' # queue \/ sender' # sender)
             => \E th \in lock : lock = {th} /\ Moved(th) ]_vars

\* A Sender holds the lock inside drop while the Receiver, called on an
\* empty buffer, is blocked on lock() and an item is queued
C14_Witness ==
    /\ \E s \in Senders : spc[s] = "drop_locked" /\ lock = {s}
    /\ rpc = "locking"
    /\ queue # <<>>

\* C15: a Sender that is about to signal the Condvar, in send or in the
\* last drop, does not hold the lock.
C15_NotifyAfterUnlock ==
    \A s \in Senders :
        spc[s] \in {"send_notify", "drop_unlocked"} => s \notin lock

\* The last Sender has released the lock and is about to signal the
\* sleeping Receiver
C15_Witness ==
    /\ \E s \in Senders : spc[s] = "drop_unlocked" /\ was_last[s]
    /\ rpc = "waiting"
    /\ lock = {}

\* C16: no Sender thread is ever in the Condvar wait, and the Receiver
\* enters it only from the locked loop, with the shared queue empty, the
\* buffer empty and the producer count at least 1.
C16_WaitOnlyWhenEmpty ==
    /\ [](\A s \in Senders : spc[s] \notin {"waiting", "woken"})
    /\ [][ (rpc' = "waiting" /\ rpc # "waiting")
             => /\ rpc = "loop" /\ lock = {Rx}
                /\ queue = <<>> /\ buffer = <<>>
                /\ sender >= 1 ]_vars

\* The Receiver sleeps after an earlier result, with a Sender still alive
C16_Witness ==
    /\ rpc = "waiting"
    /\ recvLog # <<>>
    /\ queue = <<>> /\ buffer = <<>>
    /\ sender >= 1

\* C17: a Receiver that leaves the Condvar wait, for whatever reason, takes
\* the lock and looks at the queue again before anything is returned; with
\* the queue still empty and the producer count at least 1 its next step is
\* back into the wait; every value returned was pushed before, and None is
\* returned only with the producer count at 0.
Pushed == {pushLog[i] : i \in DOMAIN pushLog}

C17_SpuriousWakeHarmless ==
    /\ [][ (rpc = "woken" /\ rpc' # rpc)
             => (rpc' = "loop" /\ lock' = {Rx} /\ recvLog' = recvLog) ]_vars
    /\ [][ (rpc = "loop" /\ queue = <<>> /\ sender >= 1 /\ rpc' # rpc)
             => (rpc' = "waiting" /\ recvLog' = recvLog) ]_vars
    /\ [][ Len(recvLog') > Len(recvLog)
             => IF recvLog'[Len(recvLog')] = None
                THEN sender = 0
                ELSE recvLog'[Len(recvLog')][1] \in Pushed ]_vars

\* Out of the wait by a wakeup that no notify can account for: nothing was
\* ever pushed, no Sender is inside a call and a producer is alive
C17_Witness ==
    /\ rpc = "woken"
    /\ pushLog = <<>>
    /\ \A s \in Senders : spc[s] \in {"idle", "none"}
    /\ sender >= 1
    /\ recvLog = <<>>

\* C18: the buffer changes only by a step of the Receiver: a recv served
\* from the buffer takes its head, a recv holding the lock with an empty
\* buffer swaps in what the pop left in the queue, and the buffer goes with
\* the Receiver; no step of a Sender thread (send, clone, drop) changes it,
\* and every item in it was pushed onto the shared queue before.
C18_BufferOnlyBySwap ==
    /\ [][ buffer' # buffer
             => \/ /\ rpc = "idle" /\ rpc' = "idle"
                   /\ Len(recvLog') = Len(recvLog) + 1
                   /\ buffer' = Tail(buffer)
                \/ /\ rpc = "loop" /\ lock = {Rx}
                   /\ buffer = <<>>
                   /\ buffer' = Tail(queue)
                   /\ queue' = <<>>
                \/ /\ rxAlive /\ ~rxAlive'
                   /\ buffer' = <<>> ]_vars
    /\ [][ (\E s \in Senders : spc'[s] # spc[s]) => buffer' = buffer ]_vars
    /\ [](\A i \in DOMAIN buffer : buffer[i] \in Pushed)

\* A Sender is inside send, holding the lock, while the buffer holds an
\* item that a swap put there
C18_Witness ==
    /\ buffer # <<>>
    /\ \E s \in Senders : spc[s] = "send_locked" /\ lock = {s}
    /\ rxAlive

\* C19: the producer count is never negative, it stays 0 once it is 0, and
\* a Sender that holds the lock for clone's increment or for drop's
\* decrement finds the count at least 1.
C19_ZeroIsFinal ==
    /\ [](sender >= 0)
    /\ [][sender = 0 => sender' = 0]_vars
    /\ [](\A s \in Senders :
              spc[s] \in {"clone_locked", "drop_locked"} => sender >= 1)

\* Two handles existed and both are dropped: the count is 0 with the
\* Receiver between calls after a result
C19_Witness ==
    /\ sender = 0
    /\ \A s \in Senders : spc[s] = "dropped"
    /\ rpc = "idle" /\ rxAlive
    /\ recvLog # <<>>

\* C20: a recv that pops from a queue holding two or more items finds the
\* buffer empty, leaves the shared queue empty and leaves in the buffer the
\* items that followed the popped one, in their order; and no step puts
\* into the queue an item other than the one being pushed by that step.
ItemsOf(seq) == {seq[i] : i \in DOMAIN seq}

C20_SwapIntoEmptyBuffer ==
    /\ [][ (rpc = "loop" /\ rpc' = "idle" /\ Len(queue) >= 2)
             => /\ buffer = <<>>
                /\ queue' = <<>>
                /\ buffer' = Tail(queue) ]_vars
    /\ [][ ItemsOf(queue') \subseteq
             ItemsOf(queue) \cup (ItemsOf(pushLog') \ ItemsOf(pushLog)) ]_vars

\* Three items were queued when recv popped: the first was returned, the
\* other two are in the buffer in push order and the queue is empty
C20_Witness ==
    /\ Len(pushLog) = 3
    /\ recvLog = <<Some(pushLog[1])>>
    /\ buffer = <<pushLog[2], pushLog[3]>>
    /\ queue = <<>>
    /\ lastVia = "queue"

====
